---- MODULE Spec2Model ----
(***************************************************************************)
(* Model of the GitHub -> Forgejo batch migration scripts:                 *)
(*   migrate_repos.py   mirror-clone mode  (create repo, git clone         *)
(*                      --mirror, git remote add, git push --mirror)       *)
(*   migrate_repos2.py  lightweight mode   (POST /api/v1/repos/migrate)    *)
(* One run of one of the two scripts is one behaviour.  Strings are        *)
(* sequences of one-character strings, so that strip(), startswith() and   *)
(* split('/') are computed and not assumed.  A secret token is a single    *)
(* symbolic atom, so that "the token occurs in a printed text" is a        *)
(* membership test.                                                        *)
(* A run starts with the command line and the tunables well formed:        *)
(* migrate_repos.py is given its list-file argument and DELAY_SECONDS is    *)
(* an integer.  A step that only leaves a record for the properties        *)
(* (outcomes, http_log, cmd_log, sleeps, response, call_cwd) changes       *)
(* nothing the scripts read.                                               *)
(***************************************************************************)
EXTENDS Integers, Sequences, FiniteSets, TLC

VARIABLES
    mode,           \* which script runs: "mirror" | "lightweight"
    FORGEJO_TOKEN,  \* os.getenv('FORGEJO_TOKEN'): None or the secret atom
    GITHUB_TOKEN,   \* os.getenv('GITHUB_TOKEN'):  None or the secret atom
    file,           \* the list file: [exists, lines]
    repos,          \* the list the loader handed to the batch loop
    pc,             \* position of the process
    i,              \* 1-based index of the item the loop is at
    success_count,  \* migrate_repos2.main: success_count
    failure_count,  \* migrate_repos2.main: failure_count
    sleeps,         \* number of time.sleep(delay_seconds) executed
    outcomes,       \* per finished item: [item, repo, outcome]
    http_log,       \* item index of every requests.post issued
    cmd_log,        \* external git commands run for the current item
    printed,        \* what the last step printed (stdout and stderr)
    cwd,            \* process working directory, a path
    dirs,           \* directories that exist (temporary mirrors)
    forgejo_clone_url, \* migrate_repo: local forgejo_clone_url
    ret,            \* migrate_repo: None, or the value its return fixed ("True" | "False")
    exit_code,      \* NotExited, or the process exit status
    response,       \* [kind, status] of the last requests.post that came back
    call_cwd,       \* working directory when the current migrate_repo call began
    file_opened,    \* whether open() has been called on the list file
    dest            \* SpecDest only: names of the repositories at the destination

vars == <<mode, FORGEJO_TOKEN, GITHUB_TOKEN, file, repos, pc, i, success_count,
          failure_count, sleeps, outcomes, http_log, cmd_log, printed, cwd,
          dirs, forgejo_clone_url, ret, exit_code, response, call_cwd,
          file_opened, dest>>

\* ------------------------------------------------------------------ bounds
\* Longest list file, in lines.
MaxLines == 3

\* ------------------------------------------------------------- basic values
None == "None"
\* A list file path that does not exist.
NoFile == [exists |-> FALSE, lines |-> <<>>]
NotExited == -1
GH_SECRET == "<GITHUB_TOKEN value>"
FJ_SECRET == "<FORGEJO_TOKEN value>"
NL == "\n"
\* An environment variable set to the empty string.
EmptyString == ""
\* create_repo returning None: no clone URL.
NoURL == <<>>
\* No requests.post has come back yet.
NoResponse == [kind |-> "none", status |-> 0]

\* Characters str.strip() removes.
IsSpace(c) == c \in {" ", NL}

\* The lines a list file is made of (each ends with its newline).
Lines ==
    { <<"a", "/", "w", NL>>,        \* a/w
      <<"b", "/", "w", NL>>,        \* b/w : other owner, same name
      <<"a", "w", NL>>,             \* no '/'
      <<"#", "c", NL>>,             \* comment
      <<" ", "#", "c", NL>>,        \* indented comment
      <<NL>>,                       \* blank line
      <<"a", "/", NL>> }            \* empty name part

RECURSIVE SeqsUpTo(_, _)
SeqsUpTo(S, n) ==
    IF n = 0 THEN {<<>>}
    ELSE LET shorter == SeqsUpTo(S, n - 1)
         IN  shorter \cup {Append(s, x) : s \in {t \in shorter : Len(t) = n - 1}, x \in S}

Files == [exists : {TRUE}, lines : SeqsUpTo(Lines, MaxLines)] \cup {NoFile}

\* ---------------------------------------------------------- str operations
\* str.lstrip / str.rstrip / str.strip with no argument.
RECURSIVE LStrip(_)
LStrip(s) == IF s # <<>> /\ IsSpace(s[1]) THEN LStrip(Tail(s)) ELSE s

RECURSIVE RStrip(_)
RStrip(s) ==
    IF s # <<>> /\ IsSpace(s[Len(s)]) THEN RStrip(SubSeq(s, 1, Len(s) - 1)) ELSE s

Strip(s) == RStrip(LStrip(s))

\* str.startswith(c) for a one-character prefix.
StartsWith(s, c) == s # <<>> /\ s[1] = c

\* str.split(sep): the parts between the occurrences of sep.
RECURSIVE Split(_, _)
Split(s, sep) ==
    IF \A k \in 1..Len(s) : s[k] # sep THEN <<s>>
    ELSE LET k == CHOOSE j \in 1..Len(s) :
                      s[j] = sep /\ \A m \in 1..(j - 1) : s[m] # sep
         IN  <<SubSeq(s, 1, k - 1)>> \o Split(SubSeq(s, k + 1, Len(s)), sep)

\* "owner, repo = full_name.split('/')": unpacking raises ValueError unless
\* there are exactly two parts.
UnpackOK(full_name) == Len(Split(full_name, "/")) = 2

Contains(text, atom) == \E k \in 1..Len(text) : text[k] = atom

\* The token check that is a bare "is None" test: an empty token passes.
TokenMissing_OnlyNone(token) == token = None

\* "if not FORGEJO_TOKEN" / "if not forgejo_token": unset and empty are both
\* false values.
TokenMissing(token) == token \in {None, EmptyString}

\* ------------------------------------------------------------- list loaders
MapStrip(ls) == [k \in 1..Len(ls) |-> Strip(ls[k])]

\* migrate_repos2.read_repos_from_file:
\*   [line.strip() for line in f if line.strip() and not line.startswith('#')]
KeepLine2(line) == Strip(line) # <<>> /\ ~StartsWith(line, "#")

read_repos_from_file(f) == MapStrip(SelectSeq(f, KeepLine2))

\* migrate_repos.__main__:  [line.strip() for line in f if line.strip()]
KeepLine1(line) == Strip(line) # <<>>

MirrorLoadList(f) == MapStrip(SelectSeq(f, KeepLine1))

Repeat(x, n) == [k \in 1..n |-> x]

\* ------------------------------------------------------------------ output
\* A printed text is a sequence of atoms (literal fragments and the characters
\* of interpolated values); `printed` is a sequence of such texts.
Text(literal) == <<literal>>

\* First line of what the interpreter prints for an uncaught exception.
Traceback == "Traceback (most recent call last): "

\* Process exit status of an uncaught Python exception (traceback, status 1).
CrashStatus == 1

\* ------------------------------------------- migrate_repos2.py (lightweight)
\* What requests.post(api_endpoint, ..., timeout=120) can come back with.
Statuses == {200, 201, 409, 403, 500}
Bodies == {"json_msg", "json_rate_limit", "json_msg_not_str", "not_json"}
LWResults ==
    [kind : {"http"}, status : Statuses, body : Bodies]
        \cup {[kind |-> "timeout", status |-> 0, body |-> "not_json"],
              [kind |-> "network_error", status |-> 0, body |-> "not_json"]}

\* ClassifyStatus with the 409 branch lost: a conflict counts as a failure.
ClassifyStatus_ConflictFails(status) ==
    IF status \in {200, 201} THEN "Created" ELSE "Failed"

\* ClassifyStatus with 409 taken for one more success status.
ClassifyStatus_ConflictCreated(status) ==
    IF status \in {200, 201, 409} THEN "Created" ELSE "Failed"

\* Lines 107-124: the outcome the status code is classified as.
ClassifyStatus(status) ==
    IF status \in {200, 201} THEN "Created"
    ELSE IF status = 409 THEN "AlreadyExists"
    ELSE "Failed"

\* The handler of line 122 written "except ValueError:".
ExceptCatches_ValueErrorOnly(exception) == exception = "ValueError"

\* Line 122: a bare "except:" catches every exception.
ExceptCatches(exception) == TRUE

\* Lines 115-123: what the failure branch prints for a response body, and the
\* exception that leaves it, if any (the handlers of lines 126-131 catch
\* requests exceptions only).  response.json() raises ValueError on a body
\* that is no JSON; error_msg.lower() raises AttributeError on a message that
\* is no string, after the message was printed.
ErrorDetail(body) ==
    IF body = "not_json"
    THEN IF ExceptCatches("ValueError")
         THEN [raised |-> None, out |-> <<Text("  Response: <response.text>")>>]
         ELSE [raised |-> "ValueError", out |-> <<>>]
    ELSE IF body = "json_msg"
    THEN [raised |-> None, out |-> <<Text("  Error: <message>")>>]
    ELSE IF body = "json_rate_limit"
    THEN [raised |-> None,
          out |-> <<Text("  Error: <message with rate limit>"),
                    Text("  Hint: Set GITHUB_TOKEN environment variable")>>]
    ELSE IF ExceptCatches("AttributeError")
    THEN [raised |-> None,
          out |-> <<Text("  Error: <message, not a string>"),
                    Text("  Response: <response.text>")>>]
    ELSE [raised |-> "AttributeError", out |-> <<Text("  Error: <message, not a string>")>>]

\* Lines 103-105: requests.post is called once, whatever comes back.
PostAttempts(outcome) == 1

\* Lines 71-131 of migrate_repository: the migrate call is issued and comes
\* back with resp.  posted: whether requests.post was called.
PostMigrate(github_repo, resp) ==
         LET migrating == <<"Migrating ">> \o github_repo \o <<"... ">>
         IN  IF resp.kind = "timeout"
             THEN [ret |-> FALSE, outcome |-> "Failed", posted |-> TRUE,
                   posts |-> PostAttempts("Failed"), raised |-> None,
                   out |-> <<migrating, Text("x Timeout")>>]
             ELSE IF resp.kind = "network_error"
             THEN [ret |-> FALSE, outcome |-> "Failed", posted |-> TRUE,
                   posts |-> PostAttempts("Failed"), raised |-> None,
                   out |-> <<migrating,
                             Text("x Network error: <exception for api_endpoint>")>>]
             ELSE LET o == ClassifyStatus(resp.status)
                      e == ErrorDetail(resp.body)
                  IN  [ret |-> (o # "Failed"), outcome |-> o, posted |-> TRUE,
                       posts |-> PostAttempts(o),
                       raised |-> IF o = "Failed" THEN e.raised ELSE None,
                       out |-> IF o = "Created" THEN <<migrating, Text("v Success")>>
                               ELSE IF o = "AlreadyExists"
                               THEN <<migrating, Text("! Already exists")>>
                               ELSE <<migrating, <<"x Failed (HTTP ", ToString(resp.status), ")">>>>
                                        \o e.out]

\* migrate_repository without the early return on ValueError: the request is
\* sent whatever the identifier looks like.
migrate_repository_NoParseCheck(github_repo, resp) == PostMigrate(github_repo, resp)

\* Lines 64-69: the identifier is unpacked first; a ValueError returns False
\* before anything is sent.
migrate_repository(github_repo, resp) ==
    IF ~UnpackOK(github_repo)
    THEN [ret |-> FALSE, outcome |-> "Failed", posted |-> FALSE, posts |-> 0,
          raised |-> None,
          out |-> <<<<"Error: Invalid repo format '">> \o github_repo
                      \o <<"'. Expected 'owner/repo'">>>>]
    ELSE PostMigrate(github_repo, resp)

\* Lines 167-170: the counters after an item whose call returned ok.
SuccessCount(ok, n) == IF ok THEN n + 1 ELSE n

\* The else branch counting in the wrong counter.
FailureCount_CountsSuccess(ok, n) == IF ok THEN n + 1 ELSE n

FailureCount(ok, n) == IF ok THEN n ELSE n + 1

\* Line 172: "if repo != repos[-1]" decides whether time.sleep runs.
SleepAfter(repo, rs) == repo # rs[Len(rs)]

\* The exit status with the failure count ignored.
ExitStatus_AlwaysZero(failures) == 0

\* Line 181: sys.exit(0 if failure_count == 0 else 1)
ExitStatus(failures) == IF failures = 0 THEN 0 ELSE 1

\* ------------------------------------------- migrate_repos.py (mirror-clone)
\* What requests.post(url, json=data, headers=headers) can come back with
\* (no timeout argument is passed).
\* "no_answer": the destination never answers; with no timeout the call
\* never returns.
CreateResults ==
    [kind : {"http"}, status : {201, 409, 500}]
        \cup {[kind |-> "network_error", status |-> 0], [kind |-> "no_answer", status |-> 0]}

\* What subprocess.run(argv, check=True) can do (no timeout argument is
\* passed): exit 0, exit nonzero (CalledProcessError), or never return.
RunResults == {"ok", "fail", "never_returns"}

ForgejoCloneURL == Text("<response.json()['clone_url']>")

\* create_repo taking any HTTP response for a created repository.
create_repo_AnyStatus(repo_name, resp) ==
    IF resp.kind = "network_error"
    THEN [raised |-> TRUE, blocked |-> FALSE, url |-> NoURL, out |-> <<>>]
    ELSE IF resp.kind = "no_answer"
    THEN [raised |-> FALSE, blocked |-> TRUE, url |-> NoURL, out |-> <<>>]
    ELSE [raised |-> FALSE, blocked |-> FALSE, url |-> ForgejoCloneURL, out |-> <<>>]

\* Lines 23-36: create_repo(repo_name, description) when the create call comes
\* back with resp.  raised: the requests exception, which nothing catches.
create_repo(repo_name, resp) ==
    IF resp.kind = "network_error"
    THEN [raised |-> TRUE, blocked |-> FALSE, url |-> NoURL, out |-> <<>>]
    ELSE IF resp.kind = "no_answer"
    THEN [raised |-> FALSE, blocked |-> TRUE, url |-> NoURL, out |-> <<>>]
    ELSE IF resp.status = 201
    THEN [raised |-> FALSE, blocked |-> FALSE, url |-> ForgejoCloneURL, out |-> <<>>]
    ELSE [raised |-> FALSE, blocked |-> FALSE, url |-> NoURL,
          out |-> <<<<"Failed to create repo ">> \o repo_name \o <<": <response.text>">>>>]

\* Lines 40-42: the source clone URL, with GITHUB_TOKEN embedded when it is set.
CloneURL(owner, repo, token) ==
    IF token # None
    THEN <<"https://x-access-token:", token, "@github.com/">> \o owner \o <<"/">>
             \o repo \o <<".git">>
    ELSE <<"https://github.com/">> \o owner \o <<"/">> \o repo \o <<".git">>

\* Line 64: print(f"Error migrating {full_name}: {e}"); str(e) of a
\* CalledProcessError is "Command '<argv list>' returned non-zero exit status n."
CalledProcessErrorText(full_name, argv) ==
    <<"Error migrating ">> \o full_name \o <<": Command '">> \o argv
        \o <<"' returned non-zero exit status <n>.">>

CloneArgv(clone_url, temp_dir) ==
    <<"git", "clone", "--mirror">> \o clone_url \o temp_dir

RemoteAddArgv(url) == <<"git", "remote", "add", "forgejo">> \o url

PushArgv == <<"git", "push", "--mirror", "forgejo">>

\* os.chdir('..'): the parent directory (the root is its own parent).
Parent(path) == IF path = <<>> THEN path ELSE SubSeq(path, 1, Len(path) - 1)

\* Line 67: the working directory after the finally block's os.chdir('..').
FinallyCwd(c) == Parent(c)

\* The finally block without its rm -rf.
FinallyDirs_NoCleanup(c, ds, temp_dir) == ds

\* Lines 68-69: the directories left after "if os.path.exists(temp_dir):
\* rm -rf temp_dir", temp_dir being relative to the directory c.
FinallyDirs(c, ds, temp_dir) == ds \ {Append(c, temp_dir)}

\* ------------------------------------------------------------------- state
StartDir == <<Text("home"), Text("work")>>

\* f"temp_mirror_{repo}": one path component.
TempDirName(repo) == <<"temp_mirror_">> \o repo

\* owner and repo of "owner, repo = full_name.split('/')".
OwnerOf(full_name) == Split(full_name, "/")[1]

RepoOf(full_name) == Split(full_name, "/")[2]

\* A directory a previous, interrupted run may have left behind.
StaleDir == Append(StartDir, TempDirName(<<"w">>))

Init ==
    /\ mode \in {"mirror", "lightweight"}
    /\ FORGEJO_TOKEN \in {None, EmptyString, FJ_SECRET}
    /\ GITHUB_TOKEN \in {None, GH_SECRET}
    /\ file \in Files
    /\ repos = <<>>
    /\ pc = "start"
    /\ i = 1
    /\ success_count = 0
    /\ failure_count = 0
    /\ sleeps = 0
    /\ outcomes = <<>>
    /\ http_log = <<>>
    /\ cmd_log = <<>>
    /\ printed = <<>>
    /\ cwd = StartDir
    /\ dirs \in IF mode = "mirror" THEN {{}, {StaleDir}} ELSE {{}}
    /\ forgejo_clone_url = NoURL
    /\ ret = None
    /\ exit_code = NotExited
    /\ response = NoResponse
    /\ call_cwd = StartDir
    /\ file_opened = FALSE
    /\ dest = {}

\* sys.exit(status), or the interpreter ending.
Exit(status, text) ==
    /\ pc' = "exit"
    /\ exit_code' = status
    /\ printed' = text

\* The process waits in a blocking call that never returns.
Block ==
    /\ pc' = "blocked"
    /\ UNCHANGED <<printed, exit_code>>

\* An uncaught exception: traceback on stderr, the interpreter exits 1.
Crash(exception) == Exit(CrashStatus, <<<<Traceback, exception>>>>)

\* Lines 13-29 and 135-152: check_environment, then the banner.
CheckEnvironment ==
    /\ mode = "lightweight"
    /\ pc = "start"
    /\ IF TokenMissing(FORGEJO_TOKEN)
       THEN Exit(1, <<Text("Error: FORGEJO_TOKEN environment variable is required")>>)
       ELSE /\ pc' = "load"
            /\ printed' =
                 (IF GITHUB_TOKEN = None
                  THEN <<Text("Warning: GITHUB_TOKEN not set. You may hit GitHub rate limits.")>>
                  ELSE <<>>)
                 \o <<Text("Forgejo Migration Tool (Lightweight Mode)"),
                      <<"GitHub auth:     ", IF GITHUB_TOKEN = None THEN "x" ELSE "v">>>>
            /\ UNCHANGED exit_code
    /\ UNCHANGED <<file_opened, dest, response, call_cwd, mode, FORGEJO_TOKEN, GITHUB_TOKEN, file, repos, i, success_count,
                   failure_count, sleeps, outcomes, http_log, cmd_log, cwd, dirs,
                   forgejo_clone_url, ret>>

\* Lines 31-42 and 154-163: read_repos_from_file, the empty-list exit.
ReadRepos ==
    /\ mode = "lightweight"
    /\ pc = "load"
    /\ file_opened' = TRUE
    /\ IF ~file.exists
       THEN /\ Exit(1, <<Text("Error: File '<filename>' not found")>>)
            /\ UNCHANGED repos
       ELSE LET rs == read_repos_from_file(file.lines)
            IN  /\ repos' = rs
                /\ IF rs = <<>>
                   THEN Exit(1, <<Text("No repositories found in file")>>)
                   ELSE /\ pc' = "loop"
                        /\ printed' = <<<<"Found ", ToString(Len(rs)), " repositories to migrate">>>>
                        /\ UNCHANGED exit_code
    /\ UNCHANGED <<dest, response, call_cwd, mode, FORGEJO_TOKEN, GITHUB_TOKEN, file, i, success_count,
                   failure_count, sleeps, outcomes, http_log, cmd_log, cwd, dirs,
                   forgejo_clone_url, ret>>

\* Lines 165-173: one iteration of the batch loop, its sleep included, when
\* the migrate call, if it is issued, comes back with resp.
MigrateItemWith(resp) ==
    /\ mode = "lightweight"
    /\ pc = "loop"
    /\ i <= Len(repos)
    /\ LET r == migrate_repository(repos[i], resp)
       IN  /\ http_log' = http_log \o Repeat(i, r.posts)
           /\ response' = IF r.posted THEN [kind |-> resp.kind, status |-> resp.status]
                          ELSE response
           /\ IF r.raised # None
              THEN /\ Crash(r.raised)
                   /\ UNCHANGED <<success_count, failure_count, outcomes, sleeps, i>>
              ELSE /\ success_count' = SuccessCount(r.ret, success_count)
                   /\ failure_count' = FailureCount(r.ret, failure_count)
                   /\ outcomes' = Append(outcomes,
                                   [item |-> i, repo |-> repos[i], outcome |-> r.outcome])
                   /\ printed' = <<<<"[", ToString(i), "/", ToString(Len(repos)), "] ">>>>
                                     \o r.out
                   /\ sleeps' = IF SleepAfter(repos[i], repos) THEN sleeps + 1 ELSE sleeps
                   /\ i' = i + 1
                   /\ UNCHANGED <<pc, exit_code>>
    /\ UNCHANGED <<file_opened, call_cwd, mode, FORGEJO_TOKEN, GITHUB_TOKEN, file, repos,
                   cmd_log, cwd, dirs, forgejo_clone_url, ret>>

\* The iteration against a destination that may answer anything.
MigrateItem ==
    /\ \E resp \in LWResults : MigrateItemWith(resp)
    /\ UNCHANGED dest

\* The destination's migrate endpoint as the interface describes it: 201 when
\* the target is absent (it exists from then on), 409 when it exists; an empty
\* repository name is rejected as unprocessable.
DestAnswer(repo_name, d) ==
    [kind |-> "http",
     status |-> IF repo_name = <<>> THEN 422 ELSE IF repo_name \in d THEN 409 ELSE 201,
     body |-> "json_msg"]

\* The iteration against that destination.
MigrateItemAtDest ==
    /\ pc = "loop"
    /\ i <= Len(repos)
    /\ IF UnpackOK(repos[i])
       THEN LET resp == DestAnswer(RepoOf(repos[i]), dest)
            IN  /\ MigrateItemWith(resp)
                /\ dest' = IF resp.status = 201 THEN dest \cup {RepoOf(repos[i])} ELSE dest
       ELSE /\ MigrateItemWith(DestAnswer(<<>>, dest))
            /\ UNCHANGED dest

\* Lines 175-181: the summary and sys.exit.
Summary ==
    /\ mode = "lightweight"
    /\ pc = "loop"
    /\ i > Len(repos)
    /\ Exit(ExitStatus(failure_count),
            <<Text("Migration complete!"),
              <<"Successful:  ", ToString(success_count)>>,
              <<"Failed:      ", ToString(failure_count)>>>>)
    /\ UNCHANGED <<file_opened, dest, response, call_cwd, mode, FORGEJO_TOKEN, GITHUB_TOKEN, file, repos, i, success_count,
                   failure_count, sleeps, outcomes, http_log, cmd_log, cwd, dirs,
                   forgejo_clone_url, ret>>

\* migrate_repos.py lines 11-16: the module-level token check.
ModuleInit ==
    /\ mode = "mirror"
    /\ pc = "start"
    /\ IF TokenMissing(FORGEJO_TOKEN)
       THEN Exit(1, <<Text("Error: FORGEJO_TOKEN environment variable is required.")>>)
       ELSE /\ pc' = "load"
            /\ UNCHANGED <<printed, exit_code>>
    /\ UNCHANGED <<file_opened, dest, response, call_cwd, mode, FORGEJO_TOKEN, GITHUB_TOKEN, file, repos, i, success_count,
                   failure_count, sleeps, outcomes, http_log, cmd_log, cwd, dirs,
                   forgejo_clone_url, ret>>

\* migrate_repos.py lines 77-78: open the list file and build repos.
MirrorLoad ==
    /\ mode = "mirror"
    /\ pc = "load"
    /\ file_opened' = TRUE
    /\ IF ~file.exists
       THEN /\ Crash("FileNotFoundError")
            /\ UNCHANGED repos
       ELSE /\ repos' = MirrorLoadList(file.lines)
            /\ pc' = "loop"
            /\ UNCHANGED <<printed, exit_code>>
    /\ UNCHANGED <<dest, response, call_cwd, mode, FORGEJO_TOKEN, GITHUB_TOKEN, file, i, success_count,
                   failure_count, sleeps, outcomes, http_log, cmd_log, cwd, dirs,
                   forgejo_clone_url, ret>>

\* migrate_repos.py lines 80-81 and 39-47: the loop takes the next item and
\* migrate_repo runs up to the create-repository call.
MirrorBegin ==
    /\ mode = "mirror"
    /\ pc = "loop"
    /\ i <= Len(repos)
    /\ cmd_log' = <<>>
    /\ call_cwd' = cwd
    /\ IF ~UnpackOK(repos[i])
       THEN /\ Crash("ValueError")
            /\ UNCHANGED <<i, outcomes, http_log, forgejo_clone_url, response>>
       ELSE \E resp \in CreateResults :
              LET r == create_repo(RepoOf(repos[i]), resp)
              IN  /\ http_log' = Append(http_log, i)    \* line 31: one requests.post
                  /\ forgejo_clone_url' = r.url
                  /\ response' = IF r.blocked THEN response ELSE resp
                  /\ IF r.raised
                     THEN /\ Crash("requests.exceptions.ConnectionError")
                          /\ UNCHANGED <<i, outcomes>>
                     ELSE IF r.blocked
                     THEN /\ Block
                          /\ UNCHANGED <<i, outcomes>>
                     ELSE IF r.url = NoURL
                     THEN /\ printed' = r.out
                          /\ outcomes' = Append(outcomes,
                                 [item |-> i, repo |-> repos[i], outcome |-> "Failed"])
                          /\ i' = i + 1
                          /\ UNCHANGED <<pc, exit_code>>
                     ELSE /\ printed' = r.out
                          /\ pc' = "clone"
                          /\ UNCHANGED <<i, outcomes, exit_code>>
    /\ UNCHANGED <<file_opened, dest, mode, FORGEJO_TOKEN, GITHUB_TOKEN, file, repos,
                   success_count, failure_count, sleeps, cwd, dirs, ret>>

\* Lines 52-53: git clone --mirror into temp_dir, then os.chdir(temp_dir).
\* git refuses to clone into a directory that exists and is not empty, and
\* removes what it created when the clone fails.
GitClone ==
    /\ mode = "mirror"
    /\ pc = "clone"
    /\ LET temp_dir == TempDirName(RepoOf(repos[i]))
           clone_url == CloneURL(OwnerOf(repos[i]), RepoOf(repos[i]), GITHUB_TOKEN)
       IN  \E res \in RunResults :
             /\ res = "ok" => Append(cwd, temp_dir) \notin dirs
             /\ cmd_log' = Append(cmd_log, [cmd |-> "clone", ok |-> (res = "ok")])
             /\ IF res = "ok"
                THEN /\ dirs' = dirs \cup {Append(cwd, temp_dir)}
                     /\ cwd' = Append(cwd, temp_dir)
                     /\ pc' = "remote_add"
                     /\ printed' = <<>>
                     /\ UNCHANGED ret
                ELSE IF res = "never_returns"
                THEN /\ Block
                     /\ UNCHANGED <<cwd, dirs, ret>>
                ELSE /\ printed' = <<CalledProcessErrorText(repos[i],
                                          CloneArgv(clone_url, temp_dir))>>
                     /\ ret' = "False"
                     /\ pc' = "finally"
                     /\ UNCHANGED <<cwd, dirs>>
    /\ UNCHANGED <<file_opened, dest, response, call_cwd, mode, FORGEJO_TOKEN, GITHUB_TOKEN, file, repos, i, success_count,
                   failure_count, sleeps, outcomes, http_log, forgejo_clone_url,
                   exit_code>>

\* Line 56: git remote add forgejo <forgejo_clone_url>.
GitRemoteAdd ==
    /\ mode = "mirror"
    /\ pc = "remote_add"
    /\ \E res \in RunResults :
         /\ cmd_log' = Append(cmd_log, [cmd |-> "remote_add", ok |-> (res = "ok")])
         /\ IF res = "ok"
            THEN /\ pc' = "push"
                 /\ printed' = <<>>
                 /\ UNCHANGED ret
            ELSE IF res = "never_returns"
            THEN /\ Block
                 /\ UNCHANGED ret
            ELSE /\ printed' = <<CalledProcessErrorText(repos[i],
                                      RemoteAddArgv(forgejo_clone_url))>>
                 /\ ret' = "False"
                 /\ pc' = "finally"
    /\ UNCHANGED <<file_opened, dest, response, call_cwd, mode, FORGEJO_TOKEN, GITHUB_TOKEN, file, repos, i, success_count,
                   failure_count, sleeps, outcomes, http_log, cwd, dirs,
                   forgejo_clone_url, exit_code>>

\* Lines 59-65: git push --mirror forgejo, then return True, or the except
\* clause's return False.
GitPush ==
    /\ mode = "mirror"
    /\ pc = "push"
    /\ \E res \in RunResults :
         /\ cmd_log' = Append(cmd_log, [cmd |-> "push", ok |-> (res = "ok")])
         /\ IF res = "ok"
            THEN /\ printed' = <<<<"Successfully migrated ">> \o repos[i]>>
                 /\ ret' = "True"
                 /\ pc' = "finally"
                 /\ UNCHANGED exit_code
            ELSE IF res = "never_returns"
            THEN /\ Block
                 /\ UNCHANGED ret
            ELSE /\ printed' = <<CalledProcessErrorText(repos[i], PushArgv)>>
                 /\ ret' = "False"
                 /\ pc' = "finally"
                 /\ UNCHANGED exit_code
    /\ UNCHANGED <<file_opened, dest, response, call_cwd, mode, FORGEJO_TOKEN, GITHUB_TOKEN, file, repos, i, success_count,
                   failure_count, sleeps, outcomes, http_log, cwd, dirs,
                   forgejo_clone_url, exit_code>>

\* Lines 66-69: the finally block; migrate_repo returns and the loop moves on.
Finally ==
    /\ mode = "mirror"
    /\ pc = "finally"
    /\ LET temp_dir == TempDirName(RepoOf(repos[i]))
           c == FinallyCwd(cwd)
       IN  /\ cwd' = c
           /\ dirs' = FinallyDirs(c, dirs, temp_dir)
           /\ cmd_log' = IF Append(c, temp_dir) \in dirs
                         THEN Append(cmd_log, [cmd |-> "rm", ok |-> TRUE])
                         ELSE cmd_log
    /\ outcomes' = Append(outcomes,
                          [item |-> i, repo |-> repos[i],
                           outcome |-> IF ret = "True" THEN "Created" ELSE "Failed"])
    /\ i' = i + 1
    /\ pc' = "loop"
    /\ ret' = None
    /\ forgejo_clone_url' = NoURL
    /\ printed' = <<>>
    /\ UNCHANGED <<file_opened, dest, response, call_cwd, mode, FORGEJO_TOKEN, GITHUB_TOKEN, file, repos, success_count,
                   failure_count, sleeps, http_log, exit_code>>

\* The for loop of lines 80-81 is exhausted: the interpreter exits 0.
MirrorDone ==
    /\ mode = "mirror"
    /\ pc = "loop"
    /\ i > Len(repos)
    /\ Exit(0, <<>>)
    /\ UNCHANGED <<file_opened, dest, response, call_cwd, mode, FORGEJO_TOKEN, GITHUB_TOKEN, file, repos, i, success_count,
                   failure_count, sleeps, outcomes, http_log, cmd_log, cwd, dirs,
                   forgejo_clone_url, ret>>

Next ==
    \/ CheckEnvironment
    \/ ReadRepos
    \/ MigrateItem
    \/ Summary
    \/ ModuleInit
    \/ MirrorLoad
    \/ MirrorBegin
    \/ GitClone
    \/ GitRemoteAdd
    \/ GitPush
    \/ Finally
    \/ MirrorDone

Spec == Init /\ [][Next]_vars

\* A lightweight run against the destination of DestAnswer, empty at first.
InitDest == Init /\ mode = "lightweight"

NextDest ==
    \/ CheckEnvironment
    \/ ReadRepos
    \/ MigrateItemAtDest
    \/ Summary

SpecDest == InitDest /\ [][NextDest]_vars

\* ------------------------------------------------------------------ claims
Last(seq) == seq[Len(seq)]

SlashCount(s) == Cardinality({k \in 1..Len(s) : s[k] = "/"})

HasOutcome(o) == \E k \in 1..Len(outcomes) : outcomes[k].outcome = o

\* C1: in the lightweight batch loop the delay runs once after each item
\* except the last and never after the last: once k items of a list of n are
\* done, min(k, n-1) sleeps have run, so n-1 at the end.
C1_DelayAfterEachItemButLast ==
    (mode = "lightweight" /\ pc \in {"loop", "exit"} /\ repos # <<>>)
        => sleeps = IF Len(outcomes) < Len(repos) THEN Len(outcomes) ELSE Len(repos) - 1

\* C2: whenever a migrate_repo call has ended (the loop is back at its head,
\* or the process has exited), the working directory is the one the call
\* began in, which is the one the batch began in, and the temporary mirror
\* directory of a transfer that reached the clone step does not exist.
C2_CleanupOnEveryExitPath ==
    (mode = "mirror" /\ pc \in {"loop", "exit"} /\ outcomes # <<>>)
        => /\ cwd = call_cwd
           /\ cwd = StartDir
           /\ cmd_log # <<>>
                => Append(call_cwd, TempDirName(RepoOf(Last(outcomes).repo))) \notin dirs

PushFailed == \E k \in 1..Len(cmd_log) : cmd_log[k] = [cmd |-> "push", ok |-> FALSE]

\* C3: when create, clone and remote-add succeeded and the push failed, then
\* once migrate_repo has returned its temporary directory does not exist, the
\* working directory is the one the call began in, and the result is failure.
C3_PushFailureIsCleanedUp ==
    (mode = "mirror" /\ pc \in {"loop", "exit"} /\ PushFailed)
        => /\ Append(call_cwd, TempDirName(RepoOf(Last(outcomes).repo))) \notin dirs
           /\ cwd = call_cwd
           /\ Last(outcomes).item = i - 1
           /\ Last(outcomes).outcome = "Failed"

\* C3 witness: a call whose push failed has returned.
C3_Witness ==
    /\ mode = "mirror"
    /\ pc = "loop"
    /\ cmd_log = <<[cmd |-> "clone", ok |-> TRUE], [cmd |-> "remote_add", ok |-> TRUE],
                   [cmd |-> "push", ok |-> FALSE], [cmd |-> "rm", ok |-> TRUE]>>

\* C4: once a batch has begun, the process ends only after every item of the
\* list got an outcome, exactly once and in input order, in both modes.
C4_EveryItemProcessedInOrder ==
    (pc = "exit" /\ repos # <<>>)
        => /\ Len(outcomes) = Len(repos)
           /\ \A k \in 1..Len(outcomes) :
                outcomes[k].item = k /\ outcomes[k].repo = repos[k]

\* C5: a lightweight batch over a non-empty list exits nonzero exactly when
\* some item's outcome was Failed, and 0 exactly when every outcome was
\* Created or AlreadyExists.
C5_ExitNonzeroIffSomeItemFailed ==
    (mode = "lightweight" /\ pc = "exit" /\ repos # <<>>)
        => /\ (exit_code # 0) <=> HasOutcome("Failed")
           /\ (exit_code = 0) <=>
                \A k \in 1..Len(outcomes) :
                    outcomes[k].outcome \in {"Created", "AlreadyExists"}

\* C5 witness: a batch with a created and a failed item has exited 1.
C5_Witness ==
    /\ mode = "lightweight"
    /\ pc = "exit"
    /\ exit_code = 1
    /\ HasOutcome("Created")
    /\ HasOutcome("Failed")

\* C6: a mirror-clone batch in which some item failed exits with status 1.
C6_MirrorExitsOneOnFailure ==
    (mode = "mirror" /\ pc = "exit" /\ HasOutcome("Failed")) => exit_code = 1

\* C7: an item whose migrate call came back 409 has the outcome AlreadyExists,
\* and a finished batch whose outcomes are all Created or AlreadyExists, with
\* at least one AlreadyExists, has failure count 0 and exit status 0.
C7_ConflictCountsAsSuccess ==
    mode = "lightweight"
        => /\ (/\ response.status = 409
               /\ outcomes # <<>>
               /\ http_log # <<>>
               /\ Last(http_log) = Last(outcomes).item)
                  => Last(outcomes).outcome = "AlreadyExists"
           /\ (/\ pc = "exit"
               /\ HasOutcome("AlreadyExists")
               /\ ~HasOutcome("Failed"))
                  => /\ failure_count = 0
                     /\ success_count = Len(outcomes)
                     /\ exit_code = 0

\* C7 witness: a batch of created and already-existing items has exited,
\* its last call having come back 409.
C7_Witness ==
    /\ mode = "lightweight"
    /\ pc = "exit"
    /\ response.status = 409
    /\ HasOutcome("AlreadyExists")
    /\ HasOutcome("Created")
    /\ ~HasOutcome("Failed")

\* C8: in lightweight mode an item whose identifier is not exactly two parts
\* around one '/' has the outcome Failed and no request was issued for it.
C8_MalformedNeverPosted ==
    mode = "lightweight"
        => \A k \in 1..Len(outcomes) :
               SlashCount(outcomes[k].repo) # 1
                   => /\ outcomes[k].outcome = "Failed"
                      /\ \A j \in 1..Len(http_log) : http_log[j] # k

\* C8 witness: a malformed item was processed after an item that was posted.
C8_Witness ==
    /\ mode = "lightweight"
    /\ Len(outcomes) >= 2
    /\ SlashCount(Last(outcomes).repo) = 0
    /\ http_log = <<1>>

\* The list the loader is specified to return: the stripped lines that are not
\* blank and whose first non-whitespace character is not '#'.
IsListItem(line) == Strip(line) # <<>> /\ Strip(line)[1] # "#"

SpecifiedList(ls) == MapStrip(SelectSeq(ls, IsListItem))

\* C9: in both modes the list handed to the batch loop is, in file order, the
\* lines that are not blank and whose first non-whitespace character is not '#'.
C9_LoaderSkipsBlankAndCommentLines ==
    pc = "loop" => repos = SpecifiedList(file.lines)

\* C10: neither token occurs in anything the program prints.
C10_TokensNeverPrinted ==
    \A m \in 1..Len(printed) :
        ~Contains(printed[m], GH_SECRET) /\ ~Contains(printed[m], FJ_SECRET)

\* An identifier with exactly one '/', a non-empty owner and a non-empty name.
WellFormed(id) == SlashCount(id) = 1 /\ id[1] # "/" /\ id[Len(id)] # "/"

\* C11: against a destination, empty at first, that answers 201 when the
\* target is absent and 409 when it exists, the first call for a repository
\* name yields Created and every later call for it AlreadyExists (never
\* Created twice), and all of these calls are counted as successes.
C11_CreatedThenAlreadyExists ==
    /\ \A k \in 1..Len(outcomes) :
         WellFormed(outcomes[k].repo)
            => outcomes[k].outcome =
                 IF \E j \in 1..(k - 1) :
                        /\ WellFormed(outcomes[j].repo)
                        /\ RepoOf(outcomes[j].repo) = RepoOf(outcomes[k].repo)
                 THEN "AlreadyExists"
                 ELSE "Created"
    /\ success_count = Cardinality({k \in 1..Len(outcomes) : WellFormed(outcomes[k].repo)})

\* C11 witness: the same repository was migrated twice in sequence, Created
\* and then AlreadyExists.
C11_Witness ==
    /\ Len(outcomes) >= 2
    /\ outcomes[1].repo = outcomes[2].repo
    /\ outcomes[1].outcome = "Created"
    /\ outcomes[2].outcome = "AlreadyExists"
    /\ success_count = 2

\* C12: with FORGEJO_TOKEN unset or empty, in both modes, the list file is
\* never opened, no request and no external command is issued, and the process
\* goes from its start straight to exit status 1.
C12_NoTokenExitsBeforeAnything ==
    FORGEJO_TOKEN \in {None, EmptyString}
        => /\ ~file_opened
           /\ http_log = <<>>
           /\ cmd_log = <<>>
           /\ dirs \subseteq {StaleDir}
           /\ pc \in {"start", "exit"}
           /\ pc = "exit" => exit_code = 1

\* C12 witness: a run with an empty token has exited.
C12_Witness ==
    /\ FORGEJO_TOKEN = EmptyString
    /\ pc = "exit"
    /\ file.exists
    /\ file.lines # <<>>

\* C13: a run that opened an existing list file and loaded an empty list ends
\* with exit status 1 and a message, without any transfer, in both modes.
C13_EmptyListExitsOne ==
    (pc = "exit" /\ file_opened /\ file.exists /\ repos = <<>>)
        => /\ exit_code = 1
           /\ printed # <<>>
           /\ outcomes = <<>>
           /\ http_log = <<>>

IsGitStep(c) == c.cmd # "rm"

GitCmds == SelectSeq(cmd_log, IsGitStep)

StepOrder == <<"clone", "remote_add", "push">>

\* C14: in a mirror transfer the git commands run in the order clone, remote
\* add, push, each only after the one before it succeeded, and only after this
\* transfer's create-repository call came back 201; the result is Created only
\* when the create call and the three commands all succeeded.
C14_StepsInOrderAfterCreate ==
    mode = "mirror"
        => /\ Len(GitCmds) <= 3
           /\ \A k \in 1..Len(GitCmds) :
                /\ GitCmds[k].cmd = StepOrder[k]
                /\ k > 1 => GitCmds[k - 1].ok
           /\ (cmd_log # <<>> \/ pc \in {"clone", "remote_add", "push", "finally"})
                => /\ http_log # <<>>
                   /\ Last(http_log) = IF pc \in {"loop", "exit"} THEN i - 1 ELSE i
                   /\ response = [kind |-> "http", status |-> 201]
           /\ (pc = "loop" /\ outcomes # <<>> /\ Last(outcomes).outcome = "Created")
                => /\ Len(GitCmds) = 3
                   /\ \A k \in 1..3 : GitCmds[k].ok
                   /\ response = [kind |-> "http", status |-> 201]

\* C14 witness: a transfer has ended Created, after all four steps.
C14_Witness ==
    /\ mode = "mirror"
    /\ pc = "loop"
    /\ outcomes # <<>>
    /\ Last(outcomes).outcome = "Created"
    /\ Len(cmd_log) = 4

\* C15: in lightweight mode no exception leaves migrate_repository (the
\* process never ends in a traceback and every request issued has its item's
\* outcome recorded), and an item that was posted is a success exactly when
\* the call came back with HTTP status 200, 201 or 409.
C15_ClassificationTotal ==
    mode = "lightweight"
        => /\ pc = "exit" => printed[1][1] # Traceback
           /\ http_log # <<>> => Last(http_log) <= Len(outcomes)
           /\ (outcomes # <<>> /\ http_log # <<>> /\ Last(http_log) = Last(outcomes).item)
                => (Last(outcomes).outcome # "Failed"
                      <=> (response.kind = "http" /\ response.status \in {200, 201, 409}))

\* C15 witness: an error response whose message is no string was classified
\* Failed and the batch went on.
C15_Witness ==
    /\ mode = "lightweight"
    /\ pc = "loop"
    /\ outcomes # <<>>
    /\ Last(outcomes).outcome = "Failed"
    /\ response = [kind |-> "http", status |-> 500]
    /\ Len(printed) = 5
    /\ printed[4] = Text("  Error: <message, not a string>")

CallsFor(item) == Cardinality({j \in 1..Len(http_log) : http_log[j] = item})

\* C16 as stated: at most one call per item, and at the end of a mirror-mode
\* run exactly one create-repository call for every item of the list.
C16_OneCreateCallPerListItem ==
    /\ \A k \in 1..Len(repos) : CallsFor(k) <= 1
    /\ (mode = "mirror" /\ pc = "exit") => \A k \in 1..Len(repos) : CallsFor(k) = 1

\* C17: a run is never stuck: it has exited or it can take a step.
C17_RunNeverStuck == pc = "exit" \/ ENABLED Next

\* C18: when a transfer is about to clone, the temporary directory it is
\* going to use does not exist.
C18_TempDirNeverCollides ==
    pc = "clone" => Append(cwd, TempDirName(RepoOf(repos[i]))) \notin dirs

\* C19: every identifier a request was issued for has a non-empty owner part
\* and a non-empty name part.
C19_CallsOnlyForNonEmptyParts ==
    \A j \in 1..Len(http_log) : WellFormed(repos[http_log[j]])

CountOutcomes(S) == Cardinality({k \in 1..Len(outcomes) : outcomes[k].outcome \in S})

\* C20: in the lightweight loop success_count and failure_count count the
\* items that succeeded and failed (their sum is the number of items done, and
\* the length of the list at the summary); a step that finishes an item adds 1
\* to exactly one of them, and no step decreases either.
C20_CountersCountItems ==
    /\ [](mode = "lightweight"
            => /\ success_count = CountOutcomes({"Created", "AlreadyExists"})
               /\ failure_count = CountOutcomes({"Failed"})
               /\ success_count + failure_count = Len(outcomes)
               /\ (pc = "exit" /\ repos # <<>>)
                    => success_count + failure_count = Len(repos))
    /\ [][mode = "lightweight"
            => /\ success_count' \in {success_count, success_count + 1}
               /\ failure_count' \in {failure_count, failure_count + 1}
               /\ (success_count' + failure_count') - (success_count + failure_count)
                     = Len(outcomes') - Len(outcomes)]_vars

\* C20 witness: a batch of one success and two failures reached its summary.
C20_Witness ==
    /\ mode = "lightweight"
    /\ pc = "exit"
    /\ success_count = 1
    /\ failure_count = 2

====
